---- MODULE Spec2Model ----
(***************************************************************************)
(* Model of odrive_ros2_control/src/odrive_hardware_interface.cpp:         *)
(* the ODriveHardwareInterface (active flag, axes, CAN transport) and its  *)
(* lifecycle, mode-switch, read and write handlers.                        *)
(*                                                                         *)
(* Numbers.  A double is modelled exactly as <<n, d, k>> = (n/d) * pi^k    *)
(* with d > 0 and gcd(n, d) = 1; <<0, 0, 0>> is NAN.  Floating-point       *)
(* rounding is not modelled.                                               *)
(***************************************************************************)
EXTENDS Integers, Sequences, FiniteSets, TLC

\* ------------------------------------------------------------- arithmetic

Abs(n) == IF n < 0 THEN -n ELSE n

RECURSIVE GCD(_, _)
GCD(a, b) == IF b = 0 THEN a ELSE GCD(b, a % b)

NAN == <<0, 0, 0>>

IsNaN(x) == x[2] = 0

\* (n/d) * pi^k in lowest terms, d > 0; zero carries no power of pi
Norm(n, d, k) ==
    IF d = 0 THEN NAN
    ELSE IF n = 0 THEN <<0, 1, 0>>
    ELSE LET g == GCD(Abs(n), Abs(d))
             s == IF d < 0 THEN -1 ELSE 1
         IN  <<(s * n) \div g, (s * d) \div g, k>>

Rat(n, d) == Norm(n, d, 0)

Zero == Rat(0, 1)

\* M_PI
M_PI == <<1, 1, 1>>

Neg(x) == IF IsNaN(x) THEN NAN ELSE <<-x[1], x[2], x[3]>>

Mul(x, y) ==
    IF IsNaN(x) \/ IsNaN(y) THEN NAN
    ELSE Norm(x[1] * y[1], x[2] * y[2], x[3] + y[3])

\* x / y; the divisors of the program are products of 2, M_PI and a
\* positive transmission ratio, so y = 0 (inf or NAN in IEEE) is NAN here
Div(x, y) ==
    IF IsNaN(x) \/ IsNaN(y) \/ y[1] = 0 THEN NAN
    ELSE Norm(x[1] * y[2], x[2] * y[1], x[3] - y[3])

\* 2 * M_PI
TwoPi == Mul(Rat(2, 1), M_PI)

\* ------------------------------------------------- protocol (CAN Simple)

\* can_simple_messages.hpp: cmd_id and msg_length of each message type
Set_Axis_State_cmd_id == 7
Set_Axis_State_msg_length == 4
Get_Encoder_Estimates_cmd_id == 9
Get_Encoder_Estimates_msg_length == 8
Set_Controller_Mode_cmd_id == 11
Set_Controller_Mode_msg_length == 8
Set_Input_Pos_cmd_id == 12
Set_Input_Pos_msg_length == 8
Set_Input_Vel_cmd_id == 13
Set_Input_Vel_msg_length == 8
Set_Input_Torque_cmd_id == 14
Set_Input_Torque_msg_length == 4
Clear_Errors_cmd_id == 24
Clear_Errors_msg_length == 1
Get_Torques_cmd_id == 28
Get_Torques_msg_length == 8

\* a command identifier this interface does not decode (Heartbeat)
Heartbeat_cmd_id == 1

\* ------------------------------------------------------------------ bounds

\* frames the transport holds when a read cycle starts: one joint, two joints
MaxPending == 1

AxesMaxPending == 2

\* read cycles are explored while every estimate stays within this magnitude
MaxMagnitude == 9

\* interfaces named by one command-mode-switch request (start and stop lists
\* together): one joint, two joints
MaxNamed == 2

AxesMaxNamed == 1

\* payload length of a truncated frame
ShortLength == 4

\* ----------------------------------------------------------- configuration

\* transmission_ratio values of the joints (1.0 is the default)
GearRatios == { Rat(1, 1), Rat(2, 1), Rat(3, 1) }

\* one joint: node_id 5 with every transmission_ratio and reverse_axis
OneAxisConfigs ==
    { <<[node_id |-> 5, transmission_ratio |-> r, reverse_axis |-> b]>> :
        r \in GearRatios, b \in BOOLEAN }

\* two joints on one bus, one of them reversed
TwoAxisConfigs ==
    { <<[node_id |-> 5, transmission_ratio |-> Rat(3, 1), reverse_axis |-> FALSE],
        [node_id |-> 3, transmission_ratio |-> Rat(1, 1), reverse_axis |-> TRUE]>> }

\* an address on the bus that belongs to no configured axis
ForeignNodeId == 6

\* ------------------------------------------------------------------- state

VARIABLES
    active_,    \* ODriveHardwareInterface::active_
    axes_,      \* ODriveHardwareInterface::axes_ : sequence of Axis
    pending,    \* frames the CAN transport holds, not yet read, oldest first
    sent,       \* frames sent by the latest handler call, in order
    requested   \* per recorded axis, the Control_Mode and the
                \* Axis_Requested_State of the latest such frames sent to it

vars == <<active_, axes_, pending, sent, requested>>

\* struct Axis after construction
Axis(node_id, transmission_ratio, reverse_axis) ==
    [ node_id_ |-> node_id,
      transmission_ratio_ |-> transmission_ratio,
      reverse_axis_ |-> reverse_axis,
      pos_setpoint_ |-> Zero,
      vel_setpoint_ |-> Zero,
      torque_setpoint_ |-> Zero,
      pos_estimate_ |-> NAN,
      vel_estimate_ |-> NAN,
      torque_target_ |-> NAN,
      torque_estimate_ |-> NAN,
      pos_input_enabled_ |-> FALSE,
      vel_input_enabled_ |-> FALSE,
      torque_input_enabled_ |-> FALSE ]

RECURSIVE Flatten(_)
Flatten(ss) == IF ss = <<>> THEN <<>> ELSE Head(ss) \o Flatten(Tail(ss))

\* Axis::send: one frame with can_id = node_id_ << 5 | cmd_id.  The frame is
\* logged with the setpoints the axis holds at the moment of the send.
send(axis, cmd_id, msg_length, msg) ==
    [ can_id |-> axis.node_id_ * 32 + cmd_id,
      can_dlc |-> msg_length,
      msg |-> msg,
      setpoints |-> <<axis.pos_setpoint_, axis.vel_setpoint_, axis.torque_setpoint_>> ]

\* the record of the frames sent so far, after the frames of `log` went out:
\* a Set_Controller_Mode frame replaces the Control_Mode recorded for its
\* node, a Set_Axis_State frame the Axis_Requested_State
RECURSIVE Requested(_, _)
Requested(req, log) ==
    IF log = <<>> THEN req
    ELSE LET m == Head(log)
             next == [i \in DOMAIN req |->
                        IF m.can_id \div 32 # req[i].node_id_ THEN req[i]
                        ELSE IF m.can_id % 32 = Set_Controller_Mode_cmd_id
                        THEN [req[i] EXCEPT !.Control_Mode = m.msg.Control_Mode]
                        ELSE IF m.can_id % 32 = Set_Axis_State_cmd_id
                        THEN [req[i] EXCEPT
                                !.Axis_Requested_State = m.msg.Axis_Requested_State]
                        ELSE req[i]]
         IN  Requested(next, Tail(log))

\* ------------------------------------------------------------- mode switch

\* Control_Mode with the tests in the order torque, velocity, position
Control_Mode_torque_first(axis) ==
    IF axis.torque_input_enabled_ THEN "CONTROL_MODE_TORQUE_CONTROL"
    ELSE IF axis.vel_input_enabled_ THEN "CONTROL_MODE_VELOCITY_CONTROL"
    ELSE IF axis.pos_input_enabled_ THEN "CONTROL_MODE_POSITION_CONTROL"
    ELSE "none"

\* ODriveHardwareInterface::set_axis_command_mode, the active branch's choice
\* of Control_Mode (the if / else-if chain); "none" is the final else
Control_Mode(axis) ==
    IF axis.pos_input_enabled_ THEN "CONTROL_MODE_POSITION_CONTROL"
    ELSE IF axis.vel_input_enabled_ THEN "CONTROL_MODE_VELOCITY_CONTROL"
    ELSE IF axis.torque_input_enabled_ THEN "CONTROL_MODE_TORQUE_CONTROL"
    ELSE "none"

\* the position branch: the setpoint is initialised to the encoder reading
SeedSetpoints(axis) ==
    IF axis.pos_input_enabled_
    THEN [axis EXCEPT !.pos_setpoint_ = axis.pos_estimate_,
                      !.vel_setpoint_ = Zero,
                      !.torque_setpoint_ = Zero]
    ELSE axis

idle_msg == [Axis_Requested_State |-> "AXIS_STATE_IDLE"]

state_msg == [Axis_Requested_State |-> "AXIS_STATE_CLOSED_LOOP_CONTROL"]

clear_error_msg == [Identify |-> 0]

control_msg(mode) == [Control_Mode |-> mode, Input_Mode |-> "INPUT_MODE_PASSTHROUGH"]

\* set_axis_command_mode without the test of active_
set_axis_command_mode_unguarded(active, axis) ==
    LET seeded == SeedSetpoints(axis)
        mode == Control_Mode(axis)
    IN  IF mode = "none"
        THEN [axis |-> seeded,
              out |-> <<send(seeded, Set_Axis_State_cmd_id, Set_Axis_State_msg_length,
                             idle_msg)>>]
        ELSE [axis |-> seeded,
              out |-> << send(seeded, Set_Controller_Mode_cmd_id,
                              Set_Controller_Mode_msg_length, control_msg(mode)),
                         send(seeded, Clear_Errors_cmd_id, Clear_Errors_msg_length,
                              clear_error_msg),
                         send(seeded, Set_Axis_State_cmd_id, Set_Axis_State_msg_length,
                              state_msg) >>]

\* set_axis_command_mode with the setpoints initialised after the sends
set_axis_command_mode_seed_last(active, axis) ==
    IF ~active
    THEN [axis |-> axis,
          out |-> <<send(axis, Set_Axis_State_cmd_id, Set_Axis_State_msg_length, idle_msg)>>]
    ELSE LET seeded == SeedSetpoints(axis)
             mode == Control_Mode(axis)
         IN  IF mode = "none"
             THEN [axis |-> seeded,
                   out |-> <<send(axis, Set_Axis_State_cmd_id, Set_Axis_State_msg_length,
                                  idle_msg)>>]
             ELSE [axis |-> seeded,
                   out |-> << send(axis, Set_Controller_Mode_cmd_id,
                                   Set_Controller_Mode_msg_length, control_msg(mode)),
                              send(axis, Clear_Errors_cmd_id, Clear_Errors_msg_length,
                                   clear_error_msg),
                              send(axis, Set_Axis_State_cmd_id, Set_Axis_State_msg_length,
                                   state_msg) >>]

\* ODriveHardwareInterface::set_axis_command_mode: the axis afterwards and
\* the frames sent, in order
set_axis_command_mode(active, axis) ==
    IF ~active
    THEN [axis |-> axis,
          out |-> <<send(axis, Set_Axis_State_cmd_id, Set_Axis_State_msg_length, idle_msg)>>]
    ELSE LET seeded == SeedSetpoints(axis)
             mode == Control_Mode(axis)
         IN  IF mode = "none"
             THEN [axis |-> seeded,
                   out |-> <<send(seeded, Set_Axis_State_cmd_id, Set_Axis_State_msg_length,
                                  idle_msg)>>]
             ELSE [axis |-> seeded,
                   out |-> << send(seeded, Set_Controller_Mode_cmd_id,
                                   Set_Controller_Mode_msg_length, control_msg(mode)),
                              send(seeded, Clear_Errors_cmd_id, Clear_Errors_msg_length,
                                   clear_error_msg),
                              send(seeded, Set_Axis_State_cmd_id, Set_Axis_State_msg_length,
                                   state_msg) >>]

\* the interface names of joint i: info_.joints[i].name + "/" + HW_IF_*
Interfaces == {"position", "velocity", "effort"}

\* switch_axis evaluating the mode as if the interface were active
switch_axis_as_active(active, i, axis, start_interfaces, stop_interfaces) ==
    LET named(f) == <<i, f>> \in start_interfaces \/ <<i, f>> \in stop_interfaces
        flag(f, old) == IF <<i, f>> \in start_interfaces THEN TRUE
                        ELSE IF <<i, f>> \in stop_interfaces THEN FALSE
                        ELSE old
        updated == [axis EXCEPT
                      !.pos_input_enabled_ = flag("position", @),
                      !.vel_input_enabled_ = flag("velocity", @),
                      !.torque_input_enabled_ = flag("effort", @)]
        mode_switch == \E f \in Interfaces : named(f)
    IN  IF mode_switch THEN set_axis_command_mode(TRUE, updated)
        ELSE [axis |-> updated, out |-> <<>>]

\* switch_axis evaluating the mode once for every interface name that matched
switch_axis_each_named(active, i, axis, start_interfaces, stop_interfaces) ==
    LET flag(f, old) == IF <<i, f>> \in start_interfaces THEN TRUE
                        ELSE IF <<i, f>> \in stop_interfaces THEN FALSE
                        ELSE old
        updated == [axis EXCEPT
                      !.pos_input_enabled_ = flag("position", @),
                      !.vel_input_enabled_ = flag("velocity", @),
                      !.torque_input_enabled_ = flag("effort", @)]
        matches == Cardinality({ f \in Interfaces : <<i, f>> \in start_interfaces })
                   + Cardinality({ f \in Interfaces : <<i, f>> \in stop_interfaces })
        once == set_axis_command_mode(active, updated)
    IN  IF matches = 0 THEN [axis |-> updated, out |-> <<>>]
        ELSE IF matches = 1 THEN once
        ELSE [axis |-> once.axis, out |-> once.out \o once.out]

\* switch_axis evaluating the mode of the joint whether or not it was named
switch_axis_every_axis(active, i, axis, start_interfaces, stop_interfaces) ==
    LET flag(f, old) == IF <<i, f>> \in start_interfaces THEN TRUE
                        ELSE IF <<i, f>> \in stop_interfaces THEN FALSE
                        ELSE old
        updated == [axis EXCEPT
                      !.pos_input_enabled_ = flag("position", @),
                      !.vel_input_enabled_ = flag("velocity", @),
                      !.torque_input_enabled_ = flag("effort", @)]
    IN  set_axis_command_mode(active, updated)

\* switch_axis with the stop interfaces applied after the start interfaces
switch_axis_stop_last(active, i, axis, start_interfaces, stop_interfaces) ==
    LET named(f) == <<i, f>> \in start_interfaces \/ <<i, f>> \in stop_interfaces
        flag(f, old) == IF <<i, f>> \in stop_interfaces THEN FALSE
                        ELSE IF <<i, f>> \in start_interfaces THEN TRUE
                        ELSE old
        updated == [axis EXCEPT
                      !.pos_input_enabled_ = flag("position", @),
                      !.vel_input_enabled_ = flag("velocity", @),
                      !.torque_input_enabled_ = flag("effort", @)]
        mode_switch == \E f \in Interfaces : named(f)
    IN  IF mode_switch THEN set_axis_command_mode(active, updated)
        ELSE [axis |-> updated, out |-> <<>>]

\* perform_command_mode_switch, the body of the loop for joint i: stop
\* interfaces clear their flag, then start interfaces set it, and the mode is
\* evaluated when any interface of the joint was named
switch_axis(active, i, axis, start_interfaces, stop_interfaces) ==
    LET named(f) == <<i, f>> \in start_interfaces \/ <<i, f>> \in stop_interfaces
        flag(f, old) == IF <<i, f>> \in start_interfaces THEN TRUE
                        ELSE IF <<i, f>> \in stop_interfaces THEN FALSE
                        ELSE old
        updated == [axis EXCEPT
                      !.pos_input_enabled_ = flag("position", @),
                      !.vel_input_enabled_ = flag("velocity", @),
                      !.torque_input_enabled_ = flag("effort", @)]
        mode_switch == \E f \in Interfaces : named(f)
    IN  IF mode_switch THEN set_axis_command_mode(active, updated)
        ELSE [axis |-> updated, out |-> <<>>]

\* ------------------------------------------------------------------- write

\* -b for a bool b, as the int the conditional operator then tests
NegBool(b) == IF b THEN -1 ELSE 0

\* 2 * M_PI * axis.transmission_ratio_
RevScale(axis) == Mul(TwoPi, axis.transmission_ratio_)

\* write: msg.Input_Pos
Input_Pos(axis) ==
    IF axis.reverse_axis_ = TRUE
    THEN Div(Neg(axis.pos_setpoint_), RevScale(axis))
    ELSE Div(axis.pos_setpoint_, RevScale(axis))

\* write: msg.Vel_FF of a position message
Vel_FF(axis) ==
    IF axis.reverse_axis_ = TRUE
    THEN (IF NegBool(axis.vel_input_enabled_) # 0
          THEN Div(axis.vel_setpoint_, RevScale(axis)) ELSE Zero)
    ELSE (IF axis.vel_input_enabled_
          THEN Div(axis.vel_setpoint_, RevScale(axis)) ELSE Zero)

\* write: msg.Torque_FF of a position message, msg.Input_Torque_FF of a
\* velocity message
Torque_FF(axis) ==
    IF axis.reverse_axis_ = TRUE
    THEN (IF NegBool(axis.torque_input_enabled_) # 0
          THEN Div(axis.torque_setpoint_, axis.transmission_ratio_) ELSE Zero)
    ELSE (IF axis.torque_input_enabled_
          THEN Div(axis.torque_setpoint_, axis.transmission_ratio_) ELSE Zero)

\* write: msg.Input_Vel
Input_Vel(axis) ==
    IF axis.reverse_axis_ = TRUE
    THEN Div(Neg(axis.vel_setpoint_), RevScale(axis))
    ELSE Div(axis.vel_setpoint_, RevScale(axis))

\* write: msg.Input_Torque
Input_Torque(axis) ==
    IF axis.reverse_axis_ = TRUE
    THEN Div(Neg(axis.torque_setpoint_), axis.transmission_ratio_)
    ELSE Div(axis.torque_setpoint_, axis.transmission_ratio_)

\* write_axis with the velocity test ahead of the position test
write_axis_velocity_first(axis) ==
    IF axis.vel_input_enabled_
    THEN <<send(axis, Set_Input_Vel_cmd_id, Set_Input_Vel_msg_length,
                [Input_Vel |-> Input_Vel(axis), Input_Torque_FF |-> Torque_FF(axis)])>>
    ELSE IF axis.pos_input_enabled_
    THEN <<send(axis, Set_Input_Pos_cmd_id, Set_Input_Pos_msg_length,
                [Input_Pos |-> Input_Pos(axis), Vel_FF |-> Vel_FF(axis),
                 Torque_FF |-> Torque_FF(axis)])>>
    ELSE IF axis.torque_input_enabled_
    THEN <<send(axis, Set_Input_Torque_cmd_id, Set_Input_Torque_msg_length,
                [Input_Torque |-> Input_Torque(axis)])>>
    ELSE <<>>

\* write, the body of the loop: the frames sent for one axis
write_axis(axis) ==
    IF axis.pos_input_enabled_
    THEN <<send(axis, Set_Input_Pos_cmd_id, Set_Input_Pos_msg_length,
                [Input_Pos |-> Input_Pos(axis), Vel_FF |-> Vel_FF(axis),
                 Torque_FF |-> Torque_FF(axis)])>>
    ELSE IF axis.vel_input_enabled_
    THEN <<send(axis, Set_Input_Vel_cmd_id, Set_Input_Vel_msg_length,
                [Input_Vel |-> Input_Vel(axis), Input_Torque_FF |-> Torque_FF(axis)])>>
    ELSE IF axis.torque_input_enabled_
    THEN <<send(axis, Set_Input_Torque_cmd_id, Set_Input_Torque_msg_length,
                [Input_Torque |-> Input_Torque(axis)])>>
    ELSE <<>>

\* -------------------------------------------------------------------- read

\* try_decode without the length test
try_decode_any_length(frame) == TRUE

\* Axis::on_can_msg, the try_decode lambda: every message type is tested
\* against Get_Encoder_Estimates_msg_t::msg_length
try_decode(frame) == ~(frame.can_dlc < Get_Encoder_Estimates_msg_length)

\* Axis::on_can_msg
Axis_on_can_msg(axis, frame) ==
    LET cmd == frame.can_id % 32
    IN  IF cmd = Get_Encoder_Estimates_cmd_id /\ try_decode(frame)
        THEN [axis EXCEPT !.pos_estimate_ = Mul(frame.data[1], TwoPi),
                          !.vel_estimate_ = Mul(frame.data[2], TwoPi)]
        ELSE IF cmd = Get_Torques_cmd_id /\ try_decode(frame)
        THEN [axis EXCEPT !.torque_target_ = frame.data[1],
                          !.torque_estimate_ = frame.data[2]]
        ELSE axis

\* on_can_msg without the comparison of the node id
on_can_msg_broadcast(axes, frame) ==
    [i \in DOMAIN axes |-> Axis_on_can_msg(axes[i], frame)]

\* ODriveHardwareInterface::on_can_msg: the frame goes to every axis whose
\* node_id_ equals can_id >> 5
on_can_msg(axes, frame) ==
    [i \in DOMAIN axes |->
        IF frame.can_id \div 32 = axes[i].node_id_
        THEN Axis_on_can_msg(axes[i], frame)
        ELSE axes[i]]

\* Drain handing the newest pending frame to on_can_msg first
RECURSIVE Drain_newest_first(_, _)
Drain_newest_first(axes, frames) ==
    IF frames = <<>> THEN axes
    ELSE Drain_newest_first(on_can_msg(axes, frames[Len(frames)]),
                            SubSeq(frames, 1, Len(frames) - 1))

\* read: while (can_intf_.read_nonblocking()) {} hands every pending frame,
\* oldest first, to on_can_msg
RECURSIVE Drain(_, _)
Drain(axes, frames) ==
    IF frames = <<>> THEN axes
    ELSE Drain(on_can_msg(axes, Head(frames)), Tail(frames))

\* read: the factor applied to the estimates of an axis
ReadFactor(axis) ==
    IF axis.reverse_axis_ = FALSE
    THEN Neg(axis.transmission_ratio_)
    ELSE axis.transmission_ratio_

\* the factor of read applied a second time
ToJointState_twice(axis) ==
    [axis EXCEPT !.pos_estimate_ = Mul(Mul(@, ReadFactor(axis)), ReadFactor(axis)),
                 !.vel_estimate_ = Mul(Mul(@, ReadFactor(axis)), ReadFactor(axis)),
                 !.torque_estimate_ = Mul(Mul(@, ReadFactor(axis)), ReadFactor(axis))]

\* read: motor state to joint state, for one axis
ToJointState(axis) ==
    [axis EXCEPT !.pos_estimate_ = Mul(@, ReadFactor(axis)),
                 !.vel_estimate_ = Mul(@, ReadFactor(axis)),
                 !.torque_estimate_ = Mul(@, ReadFactor(axis))]

\* ------------------------------------------------------------------ inputs

\* decoded payloads of Get_Encoder_Estimates: <<Pos_Estimate, Vel_Estimate>>
\* in rev and rev/s
EncoderReadings == { <<Rat(1, 2), Rat(-1, 4)>> }

\* decoded payloads of Get_Torques: <<Torque_Target, Torque_Estimate>> in Nm
TorqueReadings == { <<Rat(1, 2), Rat(1, 1)>> }

\* values a controller writes to the position, velocity and effort command
\* interfaces
CommandValues ==
    [ position |-> { M_PI }, velocity |-> { Rat(3, 2) }, effort |-> { Rat(-3, 1) } ]

\* frames that can arrive with address n: of a decoded or an unimplemented
\* command, complete or truncated
FramesOf(n) ==
    { [can_id |-> n * 32 + Get_Encoder_Estimates_cmd_id, can_dlc |-> l, data |-> d] :
        l \in {ShortLength, Get_Encoder_Estimates_msg_length}, d \in EncoderReadings }
    \cup
    { [can_id |-> n * 32 + Get_Torques_cmd_id, can_dlc |-> l, data |-> d] :
        l \in {ShortLength, Get_Torques_msg_length}, d \in TorqueReadings }
    \cup
    { [can_id |-> n * 32 + Heartbeat_cmd_id, can_dlc |-> 8, data |-> d] :
        d \in TorqueReadings }

\* one-joint system: every kind of frame for the joint, and a complete
\* encoder frame of a foreign node
Frames ==
    FramesOf(5) \cup
    { f \in FramesOf(ForeignNodeId) :
        f.can_id % 32 = Get_Encoder_Estimates_cmd_id /\ ~(f.can_dlc < 8) }

\* two-joint system: complete encoder frames of both joints and of a
\* foreign node
AxesFrames ==
    { f \in FramesOf(5) \cup FramesOf(3) \cup FramesOf(ForeignNodeId) :
        f.can_id % 32 = Get_Encoder_Estimates_cmd_id /\ ~(f.can_dlc < 8) }

\* what the transport can hold when a read cycle starts: up to MaxPending
\* frames, oldest first
RECURSIVE SeqsUpTo(_, _)
SeqsUpTo(S, n) ==
    IF n = 0 THEN { <<>> }
    ELSE LET shorter == SeqsUpTo(S, n - 1)
         IN  shorter \cup { Append(q, x) : q \in { p \in shorter : Len(p) = n - 1 }, x \in S }

Bursts == SeqsUpTo(Frames, MaxPending)

AxesBursts == SeqsUpTo(AxesFrames, AxesMaxPending)

\* a command-mode-switch request <<start_interfaces, stop_interfaces>> over
\* the interfaces of joints 1..n, naming at most `most` interfaces
RequestsOf(n, most) ==
    { r \in (SUBSET ((1..n) \X Interfaces)) \X (SUBSET ((1..n) \X Interfaces)) :
        Cardinality(r[1]) + Cardinality(r[2]) <= most }

Requests == RequestsOf(1, MaxNamed)

AxesRequests == RequestsOf(2, AxesMaxNamed)

Bounded(x) == IF IsNaN(x) THEN TRUE ELSE Abs(x[1]) <= MaxMagnitude * x[2]

\* ----------------------------------------------------------------- actions

\* the state after on_init and on_configure for a configuration of `configs`;
\* active_ has no initialiser
InitOf(configs) ==
    /\ active_ \in BOOLEAN
    /\ \E cfg \in configs :
         axes_ = [i \in DOMAIN cfg |->
                    Axis(cfg[i].node_id, cfg[i].transmission_ratio, cfg[i].reverse_axis)]
    /\ pending = <<>>
    /\ sent = <<>>
    /\ requested = <<>>

Init == InitOf(OneAxisConfigs)

AxesInit == InitOf(TwoAxisConfigs)

\* on_activate setting the flag without evaluating the mode of the axes
on_activate_flag_only ==
    /\ active_' = TRUE
    /\ sent' = <<>>
    /\ UNCHANGED <<axes_, pending, requested>>

on_activate ==
    \E r \in { [i \in DOMAIN axes_ |-> set_axis_command_mode(TRUE, axes_[i])] } :
        /\ active_' = TRUE
        /\ axes_' = [i \in DOMAIN axes_ |-> r[i].axis]
        /\ sent' = Flatten([i \in DOMAIN axes_ |-> r[i].out])
        /\ requested' = Requested(requested, sent')
        /\ UNCHANGED pending

on_deactivate ==
    \E r \in { [i \in DOMAIN axes_ |-> set_axis_command_mode(FALSE, axes_[i])] } :
        /\ active_' = FALSE
        /\ axes_' = [i \in DOMAIN axes_ |-> r[i].axis]
        /\ sent' = Flatten([i \in DOMAIN axes_ |-> r[i].out])
        /\ requested' = Requested(requested, sent')
        /\ UNCHANGED pending

perform_command_mode_switch(start_interfaces, stop_interfaces) ==
    \E r \in { [i \in DOMAIN axes_ |->
                  switch_axis(active_, i, axes_[i], start_interfaces, stop_interfaces)] } :
        /\ axes_' = [i \in DOMAIN axes_ |-> r[i].axis]
        /\ sent' = Flatten([i \in DOMAIN axes_ |-> r[i].out])
        /\ requested' = Requested(requested, sent')
        /\ UNCHANGED <<active_, pending>>

\* read, on a transport that holds `frames`
read_cycle(frames) ==
    \E decoded \in { Drain(axes_, frames) } :
    \E joint \in { [i \in DOMAIN axes_ |-> ToJointState(decoded[i])] } :
        /\ \A i \in DOMAIN joint :
              /\ Bounded(joint[i].pos_estimate_)
              /\ Bounded(joint[i].vel_estimate_)
              /\ Bounded(joint[i].torque_estimate_)
        /\ axes_' = joint
        /\ pending' = <<>>
        /\ sent' = <<>>
        /\ UNCHANGED <<active_, requested>>

read == read_cycle(pending)

\* frames arrive on the idle bus and the next handler to run is read
receive_and_read(frames) ==
    /\ pending = <<>>
    /\ read_cycle(frames)

\* write sending setpoints only while the interface is active
write_only_active ==
    /\ sent' = (IF active_ THEN Flatten([i \in DOMAIN axes_ |-> write_axis(axes_[i])])
                ELSE <<>>)
    /\ requested' = Requested(requested, sent')
    /\ UNCHANGED <<active_, axes_, pending>>

write ==
    /\ sent' = Flatten([i \in DOMAIN axes_ |-> write_axis(axes_[i])])
    /\ requested' = Requested(requested, sent')
    /\ UNCHANGED <<active_, axes_, pending>>

\* a controller writes one exported command interface of joint i
\* (export_command_interfaces hands out the addresses of the setpoints)
controller_command(i, f, v) ==
    /\ axes_' = [axes_ EXCEPT ![i] =
                   CASE f = "position" -> [@ EXCEPT !.pos_setpoint_ = v]
                     [] f = "velocity" -> [@ EXCEPT !.vel_setpoint_ = v]
                     [] f = "effort" -> [@ EXCEPT !.torque_setpoint_ = v]]
    /\ axes_'[i] # axes_[i]
    /\ sent' = <<>>
    /\ UNCHANGED <<active_, pending, requested>>

\* a frame arrives on the bus and waits in the socket
can_receive(frame) ==
    /\ Len(pending) < AxesMaxPending
    /\ pending' = Append(pending, frame)
    /\ sent' = <<>>
    /\ UNCHANGED <<active_, axes_, requested>>

\* one joint, every input
Next ==
    \/ on_activate
    \/ on_deactivate
    \/ \E r \in Requests : perform_command_mode_switch(r[1], r[2])
    \/ \E frames \in Bursts : receive_and_read(frames)
    \/ write
    \/ \E i \in DOMAIN axes_, f \in Interfaces :
         \E v \in CommandValues[f] : controller_command(i, f, v)

Spec == Init /\ [][Next]_vars

\* two joints
AxesNext ==
    \/ on_activate
    \/ on_deactivate
    \/ \E r \in AxesRequests : perform_command_mode_switch(r[1], r[2])
    \/ \E frames \in AxesBursts : receive_and_read(frames)
    \/ write
    \/ \E i \in DOMAIN axes_ :
         \E v \in CommandValues["position"] : controller_command(i, "position", v)

AxesSpec == AxesInit /\ [][AxesNext]_vars

\* a second encoder reading, so that the order of two frames shows
TransportReadings == EncoderReadings \cup { <<Rat(-1, 4), Rat(1, 2)>> }

\* frames that arrive while the transport is watched: complete encoder frames
\* of the joint with either reading, a complete torque frame of the joint,
\* and an encoder frame of a foreign node
TransportFrames ==
    { [can_id |-> 5 * 32 + Get_Encoder_Estimates_cmd_id,
       can_dlc |-> Get_Encoder_Estimates_msg_length, data |-> d] : d \in TransportReadings }
    \cup
    { f \in Frames : ~(f.can_dlc < 8) /\ f.can_id % 32 # Heartbeat_cmd_id }

\* one joint; frames arrive one by one and stay in the transport until a
\* read cycle runs
TransportNext ==
    \/ \E frame \in TransportFrames : can_receive(frame)
    \/ read

TransportSpec == Init /\ [][TransportNext]_vars

\* one joint, with the record of the mode requests sent to it; nothing has
\* been sent after construction
RecordedInit ==
    /\ active_ \in BOOLEAN
    /\ \E cfg \in OneAxisConfigs :
         axes_ = [i \in DOMAIN cfg |->
                    Axis(cfg[i].node_id, cfg[i].transmission_ratio, cfg[i].reverse_axis)]
    /\ pending = <<>>
    /\ sent = <<>>
    /\ requested = [i \in DOMAIN axes_ |->
                      [node_id_ |-> axes_[i].node_id_,
                       Control_Mode |-> "none",
                       Axis_Requested_State |-> "none"]]

RecordedSpec == RecordedInit /\ [][Next]_vars

\* ------------------------------------------------------ reading the bus log

NodeOf(m) == m.can_id \div 32

CmdOf(m) == m.can_id % 32

\* the frames of a log that went to the axis with node id n, in order
RECURSIVE SentTo(_, _)
SentTo(log, n) ==
    IF log = <<>> THEN <<>>
    ELSE IF NodeOf(Head(log)) = n THEN <<Head(log)>> \o SentTo(Tail(log), n)
    ELSE SentTo(Tail(log), n)

IsIdleRequest(m) ==
    CmdOf(m) = Set_Axis_State_cmd_id /\ m.msg.Axis_Requested_State = "AXIS_STATE_IDLE"

IsClosedLoopRequest(m) ==
    /\ CmdOf(m) = Set_Axis_State_cmd_id
    /\ m.msg.Axis_Requested_State = "AXIS_STATE_CLOSED_LOOP_CONTROL"

IsControllerMode(m) == CmdOf(m) = Set_Controller_Mode_cmd_id

IsClearErrors(m) == CmdOf(m) = Clear_Errors_cmd_id

IsSetpoint(m) ==
    CmdOf(m) \in {Set_Input_Pos_cmd_id, Set_Input_Vel_cmd_id, Set_Input_Torque_cmd_id}

AnyEnabled(axis) ==
    axis.pos_input_enabled_ \/ axis.vel_input_enabled_ \/ axis.torque_input_enabled_

Range(q) == { q[k] : k \in DOMAIN q }

\* ------------------------------------------------------------------ claims

\* C1: a write cycle sends to every axis exactly one setpoint message, of
\* the type chosen by the priority position > velocity > torque from the
\* flags the axis has when write runs, and no message to an axis with no
\* channel enabled; it sends nothing else.
C1_WriteSelectsByPriority ==
    [][ write =>
          /\ \A m \in Range(sent') : \E i \in DOMAIN axes_ : NodeOf(m) = axes_[i].node_id_
          /\ \A i \in DOMAIN axes_ :
               LET mine == SentTo(sent', axes_[i].node_id_)
                   want == IF axes_[i].pos_input_enabled_ THEN Set_Input_Pos_cmd_id
                           ELSE IF axes_[i].vel_input_enabled_ THEN Set_Input_Vel_cmd_id
                           ELSE Set_Input_Torque_cmd_id
               IN  IF AnyEnabled(axes_[i])
                   THEN Len(mine) = 1 /\ CmdOf(mine[1]) = want
                   ELSE mine = <<>> ]_vars

\* C1 witness: a write has sent a velocity message to an axis whose torque
\* channel is enabled too, and nothing to the other axis
C1_Witness ==
    /\ Len(sent) = 1
    /\ CmdOf(sent[1]) = Set_Input_Vel_cmd_id
    /\ \E i \in DOMAIN axes_ :
         /\ NodeOf(sent[1]) = axes_[i].node_id_
         /\ ~axes_[i].pos_input_enabled_
         /\ axes_[i].vel_input_enabled_
         /\ axes_[i].torque_input_enabled_
         /\ \E j \in DOMAIN axes_ : j # i /\ ~AnyEnabled(axes_[j])

\* C2: on_deactivate sets active_ to false and sends every axis a request
\* for the idle state, and no controller-mode, clear-errors or closed-loop
\* request, whatever channels are enabled.
C2_DeactivateIdlesEveryAxis ==
    [][ on_deactivate =>
          /\ ~active_'
          /\ \A i \in DOMAIN axes_ :
               \E m \in Range(SentTo(sent', axes_[i].node_id_)) : IsIdleRequest(m)
          /\ \A m \in Range(sent') :
               ~IsControllerMode(m) /\ ~IsClearErrors(m) /\ ~IsClosedLoopRequest(m) ]_vars

\* C2 witness: inactive, both axes have been sent the idle request, and
\* each axis has a channel enabled (position on one of them)
C2_Witness ==
    /\ ~active_
    /\ Len(sent) = Len(axes_)
    /\ \A i \in DOMAIN axes_ :
         /\ AnyEnabled(axes_[i])
         /\ \E m \in Range(sent) : NodeOf(m) = axes_[i].node_id_ /\ IsIdleRequest(m)
    /\ \E i \in DOMAIN axes_ : axes_[i].pos_input_enabled_

\* C3: when the mode of an axis is evaluated while the interface is active
\* (on_activate, or perform_command_mode_switch with active_ set) and its
\* position channel is enabled, the first frame sent to it is the
\* controller-mode message, and at that send pos_setpoint_ already equals the
\* current pos_estimate_ and vel_setpoint_ and torque_setpoint_ are zero.
C3_SeedBeforeModeMessage ==
    [][ (active_' /\ ~write) =>
          \A i \in DOMAIN axes_ :
             LET mine == SentTo(sent', axes_[i].node_id_)
             IN  (axes_'[i].pos_input_enabled_ /\ mine # <<>>) =>
                   /\ IsControllerMode(mine[1])
                   /\ mine[1].setpoints = <<axes_[i].pos_estimate_, Zero, Zero>>
                   /\ axes_'[i].pos_setpoint_ = axes_[i].pos_estimate_
                   /\ axes_'[i].vel_setpoint_ = Zero
                   /\ axes_'[i].torque_setpoint_ = Zero ]_vars

\* C3 witness: active, position enabled, the controller-mode message went
\* out with the setpoint seeded from a decoded (not NAN) position estimate
C3_Witness ==
    /\ active_
    /\ sent # <<>>
    /\ IsControllerMode(sent[1])
    /\ sent[1].msg.Control_Mode = "CONTROL_MODE_POSITION_CONTROL"
    /\ axes_[1].pos_input_enabled_
    /\ ~IsNaN(axes_[1].pos_estimate_)
    /\ sent[1].setpoints[1] = axes_[1].pos_estimate_
    /\ axes_[1].pos_setpoint_ = axes_[1].pos_estimate_

\* every frame with address n and command c, of any payload length
AnyFramesOf(n) ==
    { [can_id |-> n * 32 + c, can_dlc |-> l, data |-> d] :
        c \in {Get_Encoder_Estimates_cmd_id, Get_Torques_cmd_id, Heartbeat_cmd_id},
        l \in 0..8,
        d \in EncoderReadings \cup TorqueReadings }

\* the length a frame of command c must have to be decoded
RequiredLength(c) ==
    IF c = Get_Encoder_Estimates_cmd_id THEN Get_Encoder_Estimates_msg_length
    ELSE Get_Torques_msg_length

Decodable(f) ==
    /\ CmdOf(f) \in {Get_Encoder_Estimates_cmd_id, Get_Torques_cmd_id}
    /\ f.can_dlc >= RequiredLength(CmdOf(f))

\* C4: Axis::on_can_msg leaves the axis as it is for a frame whose command
\* is neither encoder-estimates nor torques, or whose payload is shorter than
\* the length of its message; a decoded encoder frame changes only the
\* position and velocity estimates, a decoded torque frame only the torque
\* target and estimate.
C4_ShortOrUnknownFramesIgnored ==
    \A i \in DOMAIN axes_ :
      \A f \in AnyFramesOf(axes_[i].node_id_) :
        LET before == axes_[i]
            after == Axis_on_can_msg(before, f)
        IN  IF ~Decodable(f) THEN after = before
            ELSE IF CmdOf(f) = Get_Encoder_Estimates_cmd_id
            THEN after = [before EXCEPT !.pos_estimate_ = after.pos_estimate_,
                                        !.vel_estimate_ = after.vel_estimate_]
            ELSE after = [before EXCEPT !.torque_target_ = after.torque_target_,
                                        !.torque_estimate_ = after.torque_estimate_]

\* C4 witness: a torque frame has been decoded (the torque fields are set)
\* while the position and velocity estimates are still unknown
C4_Witness ==
    /\ ~IsNaN(axes_[1].torque_target_)
    /\ ~IsNaN(axes_[1].torque_estimate_)
    /\ IsNaN(axes_[1].pos_estimate_)
    /\ IsNaN(axes_[1].vel_estimate_)

\* C5: dispatching a frame changes an axis only if the node id of the axis
\* equals can_id >> 5: a frame of a foreign node changes no axis, a frame of
\* one axis changes no other axis.
C5_DispatchByAddress ==
    \A n \in { axes_[i].node_id_ : i \in DOMAIN axes_ } \cup {ForeignNodeId} :
      \A f \in AnyFramesOf(n) :
        LET after == on_can_msg(axes_, f)
        IN  \A i \in DOMAIN axes_ :
              after[i] # axes_[i] => NodeOf(f) = axes_[i].node_id_

\* C5 witness: two axes; an encoder frame of the first has been decoded and
\* the estimates of the second are all still unknown
C5_Witness ==
    /\ Len(axes_) = 2
    /\ ~IsNaN(axes_[1].pos_estimate_)
    /\ IsNaN(axes_[2].pos_estimate_)
    /\ IsNaN(axes_[2].vel_estimate_)
    /\ IsNaN(axes_[2].torque_target_)
    /\ IsNaN(axes_[2].torque_estimate_)

\* the axis a frame of the log went to
AxisOf(m) == CHOOSE i \in DOMAIN axes_ : axes_[i].node_id_ = NodeOf(m)

\* the position estimate an axis holds after a read cycle that decodes an
\* encoder frame reporting `revs`
ReadBack(axis, revs) ==
    LET frame == [can_id |-> axis.node_id_ * 32 + Get_Encoder_Estimates_cmd_id,
                  can_dlc |-> Get_Encoder_Estimates_msg_length,
                  data |-> <<revs, Zero>>]
    IN  ToJointState(Axis_on_can_msg(axis, frame)).pos_estimate_

\* C6: round trip: the Input_Pos that write sends for a position setpoint p,
\* taken through the read path (Axis::on_can_msg, then the factor of read)
\* of the same axis, gives p again.
C6_RoundTrip ==
    \A m \in Range(sent) :
       CmdOf(m) = Set_Input_Pos_cmd_id =>
          ReadBack(axes_[AxisOf(m)], m.msg.Input_Pos) = m.setpoints[1]

\* the sign the claim gives the device-native setpoints: negative unless the
\* axis is reversed
ClaimedSign(axis) == IF axis.reverse_axis_ THEN Rat(1, 1) ELSE Rat(-1, 1)

\* C7: the primary setpoint of a message is the joint-space setpoint divided
\* by 2 * pi * gear_ratio (position, velocity) or by gear_ratio (torque), with
\* sign negative unless the axis is reversed.
C7_WriteTransform ==
    \A m \in Range(sent) :
       LET axis == axes_[AxisOf(m)]
           rev == Mul(Mul(Rat(2, 1), M_PI), axis.transmission_ratio_)
       IN  /\ CmdOf(m) = Set_Input_Pos_cmd_id =>
                m.msg.Input_Pos = Mul(ClaimedSign(axis), Div(m.setpoints[1], rev))
           /\ CmdOf(m) = Set_Input_Vel_cmd_id =>
                m.msg.Input_Vel = Mul(ClaimedSign(axis), Div(m.setpoints[2], rev))
           /\ CmdOf(m) = Set_Input_Torque_cmd_id =>
                m.msg.Input_Torque =
                  Mul(ClaimedSign(axis), Div(m.setpoints[3], axis.transmission_ratio_))

\* the complete encoder frames of a burst that are addressed to node n
RECURSIVE EncoderFramesFor(_, _)
EncoderFramesFor(frames, n) ==
    IF frames = <<>> THEN <<>>
    ELSE IF /\ NodeOf(Head(frames)) = n
            /\ CmdOf(Head(frames)) = Get_Encoder_Estimates_cmd_id
            /\ Head(frames).can_dlc >= Get_Encoder_Estimates_msg_length
         THEN <<Head(frames)>> \o EncoderFramesFor(Tail(frames), n)
         ELSE EncoderFramesFor(Tail(frames), n)

\* C8: after a read cycle that drains an encoder frame of an axis, the
\* position and velocity estimates are the decoded revolutions times 2 * pi
\* times the factor (-gear_ratio, or +gear_ratio for a reversed axis), the
\* factor applied once.
C8_ReadTransformOnce ==
    [][ \A frames \in Bursts :
          receive_and_read(frames) =>
            \A i \in DOMAIN axes_ :
               LET encs == EncoderFramesFor(frames, axes_[i].node_id_)
                   last == encs[Len(encs)]
                   factor == IF axes_[i].reverse_axis_
                             THEN axes_[i].transmission_ratio_
                             ELSE Neg(axes_[i].transmission_ratio_)
               IN  encs # <<>> =>
                     /\ axes_'[i].pos_estimate_ =
                          Mul(Mul(Mul(last.data[1], Rat(2, 1)), M_PI), factor)
                     /\ axes_'[i].vel_estimate_ =
                          Mul(Mul(Mul(last.data[2], Rat(2, 1)), M_PI), factor) ]_vars

\* C8 witness: Pos_Estimate = 0.5 rev on a non-reversed axis of ratio 3 has
\* become pos_estimate_ = -3 * pi (and -0.25 rev/s has become 1.5 * pi)
C8_Witness ==
    /\ axes_[1].transmission_ratio_ = Rat(3, 1)
    /\ ~axes_[1].reverse_axis_
    /\ axes_[1].pos_estimate_ = <<-3, 1, 1>>
    /\ axes_[1].vel_estimate_ = <<3, 2, 1>>

\* the frames a mode evaluation of an axis sends while active: controller
\* mode by the priority position > velocity > torque, clear errors, closed
\* loop; or one idle request when no channel is enabled
IsModeSequence(mine, axis) ==
    IF AnyEnabled(axis)
    THEN /\ Len(mine) = 3
         /\ IsControllerMode(mine[1])
         /\ mine[1].msg.Control_Mode =
              (IF axis.pos_input_enabled_ THEN "CONTROL_MODE_POSITION_CONTROL"
               ELSE IF axis.vel_input_enabled_ THEN "CONTROL_MODE_VELOCITY_CONTROL"
               ELSE "CONTROL_MODE_TORQUE_CONTROL")
         /\ IsClearErrors(mine[2])
         /\ IsClosedLoopRequest(mine[3])
    ELSE Len(mine) = 1 /\ IsIdleRequest(mine[1])

\* C9: a mode evaluation of an axis while active sends exactly controller
\* mode, clear errors, closed-loop request, in this order, when a channel is
\* enabled, and exactly one idle request when none is; on_activate evaluates
\* every axis.
C9_ModeSequence ==
    [][ (active_' /\ ~write) =>
          /\ \A m \in Range(sent') : \E i \in DOMAIN axes_ : NodeOf(m) = axes_[i].node_id_
          /\ \A i \in DOMAIN axes_ :
               LET mine == SentTo(sent', axes_[i].node_id_)
               IN  /\ on_activate => mine # <<>>
                   /\ mine # <<>> => IsModeSequence(mine, axes_'[i]) ]_vars

\* C9 witness: active; one axis, with velocity and torque enabled and
\* position not, has been sent velocity mode, clear errors, closed loop
C9_Witness ==
    /\ active_
    /\ Len(sent) = 3
    /\ IsControllerMode(sent[1])
    /\ sent[1].msg.Control_Mode = "CONTROL_MODE_VELOCITY_CONTROL"
    /\ IsClearErrors(sent[2])
    /\ IsClosedLoopRequest(sent[3])
    /\ \E i \in DOMAIN axes_ :
         /\ NodeOf(sent[1]) = axes_[i].node_id_
         /\ ~axes_[i].pos_input_enabled_
         /\ axes_[i].vel_input_enabled_
         /\ axes_[i].torque_input_enabled_

\* C10: while active_ is false only on_activate sets it; until then a
\* command-mode-switch request (any step but a write cycle) sends idle
\* requests only, and no step sends a controller-mode message or a
\* closed-loop request.
C10_InactiveOnlyIdles ==
    [][ ~active_ =>
          /\ active_' => on_activate
          /\ (~active_' /\ ~write) => \A m \in Range(sent') : IsIdleRequest(m)
          /\ ~active_' =>
               \A m \in Range(sent') : ~IsControllerMode(m) /\ ~IsClosedLoopRequest(m) ]_vars

\* C10 witness: inactive; a request has named one of the two axes, whose
\* position channel is now enabled, and that axis alone was sent the idle
\* request
C10_Witness ==
    /\ ~active_
    /\ Len(axes_) = 2
    /\ Len(sent) = 1
    /\ IsIdleRequest(sent[1])
    /\ \E i \in DOMAIN axes_ :
         NodeOf(sent[1]) = axes_[i].node_id_ /\ axes_[i].pos_input_enabled_

IsModeSwitchMessage(m) ==
    CmdOf(m) \in {Set_Controller_Mode_cmd_id, Clear_Errors_cmd_id, Set_Axis_State_cmd_id}

\* the mode-switch messages of a log, in order
RECURSIVE ModeSwitchMessages(_)
ModeSwitchMessages(log) ==
    IF log = <<>> THEN <<>>
    ELSE IF IsModeSwitchMessage(Head(log))
         THEN <<Head(log)>> \o ModeSwitchMessages(Tail(log))
         ELSE ModeSwitchMessages(Tail(log))

\* one mode-switch sequence: one idle request, or controller mode, clear
\* errors, closed-loop request
IsOneModeSwitch(q) ==
    \/ Len(q) = 1 /\ IsIdleRequest(q[1])
    \/ /\ Len(q) = 3
       /\ IsControllerMode(q[1])
       /\ IsClearErrors(q[2])
       /\ IsClosedLoopRequest(q[3])

\* C11: a mode-switch message (controller mode, clear errors, axis-state
\* request) is sent only by a call of on_activate, on_deactivate or
\* perform_command_mode_switch, never by a read or a write cycle; and such a
\* call sends each axis no mode-switch message or exactly one mode-switch
\* sequence, also when the request names several interfaces of the axis.
C11_ModeSwitchOncePerTransition ==
    [][ /\ ModeSwitchMessages(sent') # <<>> =>
             \/ on_activate
             \/ on_deactivate
             \/ \E r \in Requests : perform_command_mode_switch(r[1], r[2])
        /\ \A i \in DOMAIN axes_ :
             LET mine == ModeSwitchMessages(SentTo(sent', axes_[i].node_id_))
             IN  mine = <<>> \/ IsOneModeSwitch(mine) ]_vars

\* C11 witness: active, the position and the velocity channel of the axis
\* are enabled (a request can name both), and the axis has been sent one
\* controller-mode / clear-errors / closed-loop sequence
C11_Witness ==
    /\ active_
    /\ axes_[1].pos_input_enabled_
    /\ axes_[1].vel_input_enabled_
    /\ ~axes_[1].torque_input_enabled_
    /\ Len(sent) = 3
    /\ IsOneModeSwitch(sent)

\* a request names an interface of joint i
Names(r, i) == \E f \in Interfaces : <<i, f>> \in r[1] \/ <<i, f>> \in r[2]

Flags(axis) ==
    <<axis.pos_input_enabled_, axis.vel_input_enabled_, axis.torque_input_enabled_>>

Setpoints(axis) == <<axis.pos_setpoint_, axis.vel_setpoint_, axis.torque_setpoint_>>

\* what perform_command_mode_switch(r[1], r[2]) does in the current state:
\* for every joint the axis afterwards and the frames sent
SwitchOutcome(r) ==
    [i \in DOMAIN axes_ |-> switch_axis(active_, i, axes_[i], r[1], r[2])]

\* C12: in every reachable state and for every request,
\* perform_command_mode_switch sends no message to an axis none of whose
\* interfaces is in the start or the stop list and leaves the flags and the
\* setpoints of that axis as they are; an axis with a named interface gets
\* one full mode evaluation (one idle request while inactive, the sequence
\* for its flags while active).
C12_OnlyNamedAxesEvaluated ==
    \A r \in AxesRequests :
       LET outcome == SwitchOutcome(r)
           log == Flatten([i \in DOMAIN axes_ |-> outcome[i].out])
       IN  \A i \in DOMAIN axes_ :
              LET mine == SentTo(log, axes_[i].node_id_)
              IN  IF Names(r, i)
                  THEN IF active_ THEN IsModeSequence(mine, outcome[i].axis)
                       ELSE Len(mine) = 1 /\ IsIdleRequest(mine[1])
                  ELSE /\ mine = <<>>
                       /\ Flags(outcome[i].axis) = Flags(axes_[i])
                       /\ Setpoints(outcome[i].axis) = Setpoints(axes_[i])

\* C12 witness: active; the second axis alone has just been sent a mode
\* sequence, while the first axis, with its position channel enabled, keeps a
\* commanded position setpoint that an evaluation would have overwritten
C12_Witness ==
    /\ active_
    /\ Len(axes_) = 2
    /\ Len(sent) = 3
    /\ SentTo(sent, axes_[2].node_id_) = sent
    /\ IsOneModeSwitch(sent)
    /\ axes_[1].pos_input_enabled_
    /\ axes_[1].pos_setpoint_ = M_PI
    /\ axes_[1].pos_setpoint_ # axes_[1].pos_estimate_

\* C13: in a position message Vel_FF is the velocity setpoint taken through
\* the transform that gives the Input_Pos of the message when the velocity
\* channel is enabled, and zero otherwise; Torque_FF of a position message
\* and Input_Torque_FF of a velocity message are the device-native torque
\* (the transform of Input_Torque) when the torque channel is enabled, and
\* zero otherwise; for reversed and non-reversed axes.
C13_FeedForward ==
    \A m \in Range(sent) :
       LET axis == axes_[AxisOf(m)]
           native_vel == Input_Pos([axis EXCEPT !.pos_setpoint_ = axis.vel_setpoint_])
           native_torque == Input_Torque(axis)
       IN  /\ CmdOf(m) = Set_Input_Pos_cmd_id =>
                /\ m.msg.Vel_FF = (IF axis.vel_input_enabled_ THEN native_vel ELSE Zero)
                /\ m.msg.Torque_FF =
                     (IF axis.torque_input_enabled_ THEN native_torque ELSE Zero)
           /\ CmdOf(m) = Set_Input_Vel_cmd_id =>
                m.msg.Input_Torque_FF =
                  (IF axis.torque_input_enabled_ THEN native_torque ELSE Zero)

Estimates(axis) == <<axis.pos_estimate_, axis.vel_estimate_, axis.torque_estimate_>>

\* C14: a read cycle that receives no frame addressed to an axis leaves the
\* position, velocity and torque estimates of that axis unchanged (the
\* estimates change only when a frame for the axis is decoded, so no value is
\* scaled by the gear-ratio factor twice).
C14_EstimatesChangeOnlyByFrames ==
    [][ \A frames \in Bursts :
          receive_and_read(frames) =>
            \A i \in DOMAIN axes_ :
               (\A f \in Range(frames) : NodeOf(f) # axes_[i].node_id_) =>
                  Estimates(axes_'[i]) = Estimates(axes_[i]) ]_vars

\* the controller mode a setpoint message is for
ModeOfSetpoint(m) ==
    IF CmdOf(m) = Set_Input_Pos_cmd_id THEN "CONTROL_MODE_POSITION_CONTROL"
    ELSE IF CmdOf(m) = Set_Input_Vel_cmd_id THEN "CONTROL_MODE_VELOCITY_CONTROL"
    ELSE "CONTROL_MODE_TORQUE_CONTROL"

\* C15: after any sequence of calls, when the interface is active and a write
\* cycle has sent an axis a setpoint message, the type of the message is the
\* controller mode most recently sent to that axis, and the axis state most
\* recently requested of it is closed-loop control.
C15_WriteMatchesRequestedMode ==
    active_ =>
      \A m \in Range(sent) :
         IsSetpoint(m) =>
            /\ requested[AxisOf(m)].Control_Mode = ModeOfSetpoint(m)
            /\ requested[AxisOf(m)].Axis_Requested_State = "AXIS_STATE_CLOSED_LOOP_CONTROL"

\* C15 witness: active; a write has sent a velocity message to an axis whose
\* torque channel is enabled too, and velocity control and the closed loop
\* are what the axis was last asked for
C15_Witness ==
    /\ active_
    /\ Len(sent) = 1
    /\ CmdOf(sent[1]) = Set_Input_Vel_cmd_id
    /\ axes_[1].vel_input_enabled_
    /\ axes_[1].torque_input_enabled_
    /\ requested # <<>>
    /\ requested[1].Control_Mode = "CONTROL_MODE_VELOCITY_CONTROL"
    /\ requested[1].Axis_Requested_State = "AXIS_STATE_CLOSED_LOOP_CONTROL"

\* the Input_Pos of the position message that write sends for an axis after
\* a read cycle has decoded an encoder frame reporting `reading`, and a mode
\* evaluation with the position channel enabled (interface active) has seeded
\* the setpoint, the controller writing no command in between
SeededInputPos(axis, reading) ==
    LET frame == [can_id |-> axis.node_id_ * 32 + Get_Encoder_Estimates_cmd_id,
                  can_dlc |-> Get_Encoder_Estimates_msg_length,
                  data |-> reading]
        decoded == ToJointState(Axis_on_can_msg(axis, frame))
        switched == set_axis_command_mode(TRUE, [decoded EXCEPT !.pos_input_enabled_ = TRUE])
    IN  write_axis(switched.axis)[1].msg.Input_Pos

\* C16: entering position mode causes no jump: after a read cycle decodes
\* an encoder frame reporting position x, a mode evaluation with the position
\* channel enabled seeds the setpoint and write runs, the position message
\* carries Input_Pos = x, for reversed and non-reversed axes and every
\* gear ratio.
C16_NoJumpOnPositionEntry ==
    \A i \in DOMAIN axes_ :
       \A reading \in EncoderReadings :
          SeededInputPos(axes_[i], reading) = reading[1]

\* the complete torque frames of a burst that are addressed to node n
RECURSIVE TorqueFramesFor(_, _)
TorqueFramesFor(frames, n) ==
    IF frames = <<>> THEN <<>>
    ELSE IF /\ NodeOf(Head(frames)) = n
            /\ CmdOf(Head(frames)) = Get_Torques_cmd_id
            /\ Head(frames).can_dlc >= Get_Torques_msg_length
         THEN <<Head(frames)>> \o TorqueFramesFor(Tail(frames), n)
         ELSE TorqueFramesFor(Tail(frames), n)

\* C17: a read cycle leaves no frame pending in the transport, and every
\* frame that was pending is dispatched, oldest first, before the factor of
\* the gear ratio is applied: each estimate afterwards is the factor times
\* the value of the last pending frame of its kind for the axis, or the
\* factor times the estimate held before when there is no such frame.
C17_ReadDrainsInOrder ==
    [][ read =>
          /\ pending' = <<>>
          /\ \A i \in DOMAIN axes_ :
               LET encs == EncoderFramesFor(pending, axes_[i].node_id_)
                   torqs == TorqueFramesFor(pending, axes_[i].node_id_)
                   factor == IF axes_[i].reverse_axis_
                             THEN axes_[i].transmission_ratio_
                             ELSE Neg(axes_[i].transmission_ratio_)
                   pos == IF encs = <<>> THEN axes_[i].pos_estimate_
                          ELSE Mul(Mul(encs[Len(encs)].data[1], Rat(2, 1)), M_PI)
                   vel == IF encs = <<>> THEN axes_[i].vel_estimate_
                          ELSE Mul(Mul(encs[Len(encs)].data[2], Rat(2, 1)), M_PI)
                   torque == IF torqs = <<>> THEN axes_[i].torque_estimate_
                             ELSE torqs[Len(torqs)].data[2]
               IN  /\ axes_'[i].pos_estimate_ = Mul(pos, factor)
                   /\ axes_'[i].vel_estimate_ = Mul(vel, factor)
                   /\ axes_'[i].torque_estimate_ = Mul(torque, factor) ]_vars

\* C17 witness: nothing is pending, and a non-reversed axis of ratio 2 holds
\* a position and a torque estimate that both carry the factor once, so the
\* last read cycle drained an encoder frame (the second reading) and a torque
\* frame
C17_Witness ==
    /\ pending = <<>>
    /\ axes_[1].transmission_ratio_ = Rat(2, 1)
    /\ ~axes_[1].reverse_axis_
    /\ axes_[1].pos_estimate_ = <<1, 1, 1>>
    /\ axes_[1].vel_estimate_ = <<-2, 1, 1>>
    /\ axes_[1].torque_estimate_ = Rat(-2, 1)

\* C18: a position message never carries a setpoint seeded from an unknown
\* position estimate: the setpoint of every position message that write sends
\* is a number (the controller's command, or an estimate that a decoded
\* encoder frame had set before the mode evaluation copied it), never the
\* NAN the estimates start with.
C18_NoUnknownPositionSent ==
    \A m \in Range(sent) :
       CmdOf(m) = Set_Input_Pos_cmd_id =>
          ~IsNaN(m.setpoints[1]) /\ ~IsNaN(m.msg.Input_Pos)

FlagOf(flags, f) ==
    IF f = "position" THEN flags[1] ELSE IF f = "velocity" THEN flags[2] ELSE flags[3]

\* C20: in every reachable state and for every request,
\* perform_command_mode_switch leaves a channel named in the start list
\* enabled (also when the stop list names it too), a channel named only in
\* the stop list disabled, and any other channel as it was; and the one mode
\* evaluation of a named axis uses these final flags: while active it sends
\* the sequence for them and seeds the setpoints exactly when the position
\* channel ends enabled.
C20_StopsThenStartsThenEvaluate ==
    \A r \in Requests :
       LET outcome == SwitchOutcome(r)
       IN  \A i \in DOMAIN axes_ :
              LET before == axes_[i]
                  after == outcome[i].axis
              IN  /\ \A f \in Interfaces :
                        FlagOf(Flags(after), f) =
                          (IF <<i, f>> \in r[1] THEN TRUE
                           ELSE IF <<i, f>> \in r[2] THEN FALSE
                           ELSE FlagOf(Flags(before), f))
                  /\ (Names(r, i) /\ active_) =>
                        /\ IsModeSequence(outcome[i].out, after)
                        /\ Setpoints(after) =
                             (IF after.pos_input_enabled_
                              THEN <<before.pos_estimate_, Zero, Zero>>
                              ELSE Setpoints(before))

\* C20 witness: active; the axis ends with the torque channel alone enabled
\* and has been sent the sequence for torque control, while it still holds a
\* velocity command (its velocity channel was in use and has been stopped)
C20_Witness ==
    /\ active_
    /\ Flags(axes_[1]) = <<FALSE, FALSE, TRUE>>
    /\ axes_[1].vel_setpoint_ = Rat(3, 2)
    /\ Len(sent) = 3
    /\ IsControllerMode(sent[1])
    /\ sent[1].msg.Control_Mode = "CONTROL_MODE_TORQUE_CONTROL"
    /\ IsClosedLoopRequest(sent[3])

====
